---- MODULE Spec2Model ----
(***************************************************************************)
(* A model of py-espn-fantasy: the three commands of cli.py and the        *)
(* score-processing functions of scores.py.                                *)
(*                                                                         *)
(* Strings are sequences of one-character strings, so that strip, lower,   *)
(* split, substring tests and lexicographic comparison are computed.       *)
(* Money amounts are IEEE binary64 values, kept as the bits of their       *)
(* significand (see the section on floating point).                        *)
(***************************************************************************)
EXTENDS Integers, Sequences, FiniteSets, TLC

VARIABLES
    pc,            \* position of the running command / harness
    cmd,           \* which command runs: list_scores, list_high_scores, list_payouts
    include_all,   \* --include-all
    safe,          \* --safe
    csv,           \* --csv
    participants,  \* config.weekly_pot.participants (already normalized by the config model)
    payout,        \* config.weekly_pot.payout (a binary64 value)
    start_week,    \* --start-week
    end_week,      \* --end-week
    week,          \* loop variable of fetch_all_weeks
    all_results,   \* all_results of fetch_all_weeks / results of the command before filtering
    results,       \* results of the command after filter_participants
    payouts,       \* the ledger returned by calculate_payouts
    stdout,        \* what the human report printed, line by line
    csv_file,      \* rows written to the CSV file, header first
    stderr,        \* diagnostics printed to stderr
    calls,         \* calls made to the upstream league API, in order
    exit_code,     \* process exit code once the command has ended
    input,         \* argument of a function applied on its own
    output         \* successive values returned by a function applied on its own

vars == <<pc, cmd, include_all, safe, csv, participants, payout, start_week, end_week,
          week, all_results, results, payouts, stdout, csv_file, stderr, calls,
          exit_code, input, output>>

----------------------------------------------------------------------------
(* Bounds *)

MaxNameLen == 5          \* longest name given to mask_name on its own
MaxWeek == 2             \* last week a command may be asked for
MaxFilterRecords == 2    \* most records given to filter_participants on its own
MaxParticipants == 2     \* most participants given to filter_participants on its own
MaxScoreMatchups == 2    \* most matchups behind the records given to the all-scores reports
PayoutWeeks == 6         \* weeks of the records given to calculate_payouts on its own

----------------------------------------------------------------------------
(* Strings *)

\* Characters in ascending code point order (str comparison is by code point).
CodeOrder == <<" ", ".", "1", "2", "3", "4", "A", "B", "J", "S", "T", "a", "b", "e", "h",
               "i", "j", "m", "n", "o", "s", "t", "y">>

Ord(c) == CHOOSE i \in 1..Len(CodeOrder) : CodeOrder[i] = c

Whitespace == {" "}

\* str.lower() on one character
LowerChar(c) ==
    CASE c = "A" -> "a"
      [] c = "B" -> "b"
      [] c = "J" -> "j"
      [] c = "S" -> "s"
      [] c = "T" -> "t"
      [] OTHER -> c

\* str.lower()
Lower(s) == [i \in 1..Len(s) |-> LowerChar(s[i])]

RECURSIVE LStrip(_)
LStrip(s) == IF s # <<>> /\ Head(s) \in Whitespace THEN LStrip(Tail(s)) ELSE s

RECURSIVE RStrip(_)
RStrip(s) ==
    IF s # <<>> /\ s[Len(s)] \in Whitespace THEN RStrip(SubSeq(s, 1, Len(s) - 1)) ELSE s

\* str.strip()
Strip(s) == RStrip(LStrip(s))

\* str.split() without arguments: the maximal runs of non-whitespace characters.
\* cur is the token being read, acc the tokens read so far.
RECURSIVE SplitFrom(_, _, _)
SplitFrom(s, cur, acc) ==
    IF s = <<>>
    THEN IF cur = <<>> THEN acc ELSE Append(acc, cur)
    ELSE IF Head(s) \in Whitespace
         THEN SplitFrom(Tail(s), <<>>, IF cur = <<>> THEN acc ELSE Append(acc, cur))
         ELSE SplitFrom(Tail(s), Append(cur, Head(s)), acc)

Split(s) == SplitFrom(s, <<>>, <<>>)

\* Python's "p in s" on strings
IsSubstring(p, s) ==
    \E i \in 0..(Len(s) - Len(p)) : SubSeq(s, i + 1, i + Len(p)) = p

\* Python's s < t on strings: lexicographic by code point, a proper prefix is smaller.
RECURSIVE StrLess(_, _)
StrLess(s, t) ==
    IF t = <<>> THEN FALSE
    ELSE IF s = <<>> THEN TRUE
    ELSE IF Head(s) = Head(t) THEN StrLess(Tail(s), Tail(t))
    ELSE Ord(Head(s)) < Ord(Head(t))

\* All strings over chars of length at most n
RECURSIVE StringsUpTo(_, _)
StringsUpTo(chars, n) ==
    IF n = 0 THEN {<<>>}
    ELSE LET shorter == StringsUpTo(chars, n - 1)
         IN shorter \cup {Append(s, c) : s \in shorter, c \in chars}

----------------------------------------------------------------------------
(* Floating point: config.weekly_pot.payout and the ledger's totals are    *)
(* Python floats (IEEE binary64).  A value sig * 2^e is kept as the bits   *)
(* of the natural number sig, least significant bit first, without high    *)
(* zero bits; e is the exponent of the configured payout's last place.     *)
(* Every total is a sum of payouts, hence a multiple of 2^e, and an        *)
(* addition is the exact sum rounded to 53 significant bits, ties to even. *)

\* Significand width of binary64
MantBits == 53

RECURSIVE BitsAddCarry(_, _, _)
BitsAddCarry(a, b, c) ==
    IF a = <<>> /\ b = <<>>
    THEN IF c = 1 THEN <<1>> ELSE <<>>
    ELSE LET x == IF a = <<>> THEN 0 ELSE Head(a)
             y == IF b = <<>> THEN 0 ELSE Head(b)
             ta == IF a = <<>> THEN <<>> ELSE Tail(a)
             tb == IF b = <<>> THEN <<>> ELSE Tail(b)
         IN <<(x + y + c) % 2>> \o BitsAddCarry(ta, tb, (x + y + c) \div 2)

\* The exact sum of two naturals
BitsAdd(a, b) == BitsAddCarry(a, b, 0)

\* Round a natural to MantBits significant bits, ties to even
FloatRound(n) ==
    IF Len(n) <= MantBits THEN n
    ELSE LET d == Len(n) - MantBits
             kept == SubSeq(n, d + 1, Len(n))
             guard == n[d]
             sticky == \E i \in 1..(d - 1) : n[i] = 1
             up == guard = 1 /\ (sticky \/ kept[1] = 1)
         IN [i \in 1..d |-> 0] \o (IF up THEN BitsAdd(kept, <<1>>) ELSE kept)

\* x + y on floats
FloatAdd(x, y) == FloatRound(BitsAdd(x, y))

\* x < y on floats
RECURSIVE BitsLessFrom(_, _, _)
BitsLessFrom(a, b, i) ==
    IF i = 0 THEN FALSE
    ELSE IF a[i] = b[i] THEN BitsLessFrom(a, b, i - 1)
    ELSE a[i] < b[i]

FloatLess(x, y) ==
    IF Len(x) # Len(y) THEN Len(x) < Len(y) ELSE BitsLessFrom(x, y, Len(x))

\* The natural written with the hexadecimal digits h, most significant first
RECURSIVE HexBits(_)
HexBits(h) ==
    IF h = <<>> THEN <<>>
    ELSE LET d == h[Len(h)]
         IN <<d % 2, (d \div 2) % 2, (d \div 4) % 2, (d \div 8) % 2>>
            \o HexBits(SubSeq(h, 1, Len(h) - 1))

RECURSIVE DropHighZeros(_)
DropHighZeros(n) ==
    IF n # <<>> /\ n[Len(n)] = 0 THEN DropHighZeros(SubSeq(n, 1, Len(n) - 1)) ELSE n

FloatZero == <<>>
\* 10.0 = 0x1.4p+3 = 5 * 2^1
FloatTen == <<1, 0, 1>>
\* 4.99 = 0x1.3f5c28f5c28f6p+2
Float4_99 == DropHighZeros(HexBits(<<1, 3, 15, 5, 12, 2, 8, 15, 5, 12, 2, 8, 15, 6>>))

----------------------------------------------------------------------------
(* mask_name *)

\* A variant keeping the whole last token
MaskLastToken(name, safe_flag) ==
    IF ~safe_flag THEN name
    ELSE LET parts == Split(name)
         IN IF Len(parts) >= 2
            THEN parts[1] \o <<" ">> \o parts[Len(parts)] \o <<".">>
            ELSE name

mask_name(name, safe_flag) ==
    IF ~safe_flag THEN name
    ELSE LET parts == Split(name)
         IN IF Len(parts) >= 2
            THEN LET first_name == parts[1]
                     last_initial == IF parts[Len(parts)] # <<>>
                                     THEN <<parts[Len(parts)][1]>> ELSE <<>>
                 IN first_name \o <<" ">> \o last_initial \o <<".">>
            ELSE name

----------------------------------------------------------------------------
(* Python values *)

\* An Optional list: None, or a list
None == [is_none |-> TRUE, items |-> <<>>]
Some(l) == [is_none |-> FALSE, items |-> l]

\* "if x:" / "if not x:" on an Optional list: None and the empty list are falsy
Truthy(x) == ~x.is_none /\ x.items # <<>>

\* sorted(S) for a set of ints
RECURSIVE SortedInts(_)
SortedInts(S) ==
    IF S = {} THEN <<>>
    ELSE LET m == CHOOSE x \in S : \A y \in S : x <= y
         IN <<m>> \o SortedInts(S \ {m})

\* sorted(S) for a set of strings
RECURSIVE SortedStrings(_)
SortedStrings(S) ==
    IF S = {} THEN <<>>
    ELSE LET m == CHOOSE x \in S : \A y \in S : x = y \/ StrLess(x, y)
         IN <<m>> \o SortedStrings(S \ {m})

----------------------------------------------------------------------------
(* fetch_week_scores: the records of one week's scoreboard *)

\* team.scores[week - 1] if week <= len(team.scores) else 0
WeekScore(team, w) == IF w <= Len(team.scores) THEN team.scores[w] ELSE 0

\* "firstName" in owners[0] and "lastName" in owners[0]
HasNames(owner) == owner.has_firstName /\ owner.has_lastName

\* f"{firstName.strip()} {lastName.strip()}".strip()
FullName(owner) == Strip(Strip(owner.firstName) \o <<" ">> \o Strip(owner.lastName))

OwnerDisplay(team) ==
    IF Len(team.owners) > 0 THEN team.owners[1].displayName ELSE team.team_name

OwnerFull(team) ==
    IF Len(team.owners) > 0 /\ HasNames(team.owners[1])
    THEN FullName(team.owners[1])
    ELSE OwnerDisplay(team)

\* A variant consulting the winner before the complete flag
MatchupPlayedWinnerFirst(matchup, w) ==
    IF "winner" \in matchup.attrs THEN matchup.winner # "None"
    ELSE IF "complete" \in matchup.attrs THEN matchup.complete
    ELSE IF "played" \in matchup.attrs THEN matchup.played
    ELSE WeekScore(matchup.home_team, w) > 0 \/ WeekScore(matchup.away_team, w) > 0

\* Whether the matchup has been played: the first attribute present among
\* complete, winner, played decides; without any, a nonzero score does.
matchup_played(matchup, w) ==
    IF "complete" \in matchup.attrs THEN matchup.complete
    ELSE IF "winner" \in matchup.attrs THEN matchup.winner # "None"
    ELSE IF "played" \in matchup.attrs THEN matchup.played
    ELSE WeekScore(matchup.home_team, w) > 0 \/ WeekScore(matchup.away_team, w) > 0

TeamRecord(team, w) ==
    [team |-> team.team_name,
     score |-> WeekScore(team, w),
     week |-> w,
     owner |-> OwnerDisplay(team),
     owner_full |-> OwnerFull(team)]

RECURSIVE MatchupRecords(_, _)
MatchupRecords(matchups, w) ==
    IF matchups = <<>> THEN <<>>
    ELSE LET matchup == Head(matchups)
         IN (IF ~matchup_played(matchup, w) THEN <<>>
             ELSE <<TeamRecord(matchup.home_team, w), TeamRecord(matchup.away_team, w)>>)
            \o MatchupRecords(Tail(matchups), w)

\* response is what league.scoreboard(week) does: it raises, or returns matchups
fetch_week_scores(response, w) ==
    IF response.raises THEN None ELSE Some(MatchupRecords(response.matchups, w))

----------------------------------------------------------------------------
(* get_league_owners, validate_participants *)

TeamOwnerNames(team) ==
    IF Len(team.owners) > 0
    THEN (IF HasNames(team.owners[1]) THEN {Lower(FullName(team.owners[1]))} ELSE {})
         \cup (IF team.owners[1].has_displayName
               THEN {Lower(Strip(team.owners[1].displayName))} ELSE {})
    ELSE {}

\* league_ok: whether League(...) returned; teams: league.teams
get_league_owners(league_ok, teams) ==
    IF ~league_ok THEN [is_none |-> TRUE, names |-> {}]
    ELSE [is_none |-> FALSE,
          names |-> UNION {TeamOwnerNames(teams[i]) : i \in 1..Len(teams)}]

\* The participants validate_participants reports missing
MissingParticipants(owners, names) == {names[i] : i \in 1..Len(names)} \ owners.names

\* A variant that lets every configuration pass
ValidateNothing(owners, names) == TRUE

validate_participants(owners, names) ==
    IF owners.is_none THEN TRUE ELSE MissingParticipants(owners, names) = {}

----------------------------------------------------------------------------
(* filter_participants *)

\* A variant matching on the full name alone
AnyParticipantMatchesFull(normalized_participants, owner_full, owner_display) ==
    \E participant \in normalized_participants :
        participant = owner_full \/ IsSubstring(participant, owner_full)

\* The for loop over normalized_participants, with its break
RECURSIVE AnyParticipantMatches(_, _, _)
AnyParticipantMatches(normalized_participants, owner_full, owner_display) ==
    IF normalized_participants = {} THEN FALSE
    ELSE LET participant == CHOOSE p \in normalized_participants : TRUE
         IN IF participant = owner_full
               \/ participant = owner_display
               \/ IsSubstring(participant, owner_full)
               \/ IsSubstring(participant, owner_display)
            THEN TRUE
            ELSE AnyParticipantMatches(normalized_participants \ {participant},
                                       owner_full, owner_display)

RecordMatches(result, normalized_participants) ==
    AnyParticipantMatches(normalized_participants,
                          Lower(Strip(result.owner_full)),
                          Lower(Strip(result.owner)))

RECURSIVE FilterLoop(_, _)
FilterLoop(rs, normalized_participants) ==
    IF rs = <<>> THEN <<>>
    ELSE (IF RecordMatches(Head(rs), normalized_participants) THEN <<Head(rs)>> ELSE <<>>)
         \o FilterLoop(Tail(rs), normalized_participants)

filter_participants(rs, participant_names) ==
    FilterLoop(rs, {Strip(participant_names[i]) : i \in 1..Len(participant_names)})

----------------------------------------------------------------------------
(* Grouping by week, ranking, and the week's highest scorer *)

\* sorted(week_data.keys())
WeekKeys(rs) == SortedInts({rs[i].week : i \in 1..Len(rs)})

\* week_data[w]: the week's records in the order received
WeekData(rs, w) == SelectSeq(rs, LAMBDA r : r.week = w)

\* A variant that puts x before the items of equal score
RECURSIVE InsertBeforeEqual(_, _)
InsertBeforeEqual(x, sorted) ==
    IF sorted = <<>> THEN <<x>>
    ELSE IF Head(sorted).score <= x.score THEN <<x>> \o sorted
    ELSE <<Head(sorted)>> \o InsertBeforeEqual(x, Tail(sorted))

\* Where sorted(..., reverse=True) puts x among the already sorted items: after
\* every item whose score is not smaller (the sort is stable, also when reversed).
RECURSIVE InsertByScore(_, _)
InsertByScore(x, sorted) ==
    IF sorted = <<>> THEN <<x>>
    ELSE IF Head(sorted).score < x.score THEN <<x>> \o sorted
    ELSE <<Head(sorted)>> \o InsertByScore(x, Tail(sorted))

RECURSIVE SortedFrom(_, _)
SortedFrom(rs, sorted) ==
    IF rs = <<>> THEN sorted ELSE SortedFrom(Tail(rs), InsertByScore(Head(rs), sorted))

\* sorted(week_results, key=lambda x: x["score"], reverse=True)
SortedByScore(rs) == SortedFrom(rs, <<>>)

\* A variant returning the last of the highest, where max returns the first
RECURSIVE LastMaxFrom(_, _)
LastMaxFrom(rs, best) ==
    IF rs = <<>> THEN best
    ELSE LastMaxFrom(Tail(rs), IF Head(rs).score >= best.score THEN Head(rs) ELSE best)

\* max(week_results, key=lambda x: x["score"]): a later item replaces the best
\* so far only when its score is strictly greater.
RECURSIVE MaxFrom(_, _)
MaxFrom(rs, best) ==
    IF rs = <<>> THEN best
    ELSE MaxFrom(Tail(rs), IF Head(rs).score > best.score THEN Head(rs) ELSE best)

MaxByScore(rs) == MaxFrom(Tail(rs), Head(rs))

\* result.get("owner_full", ...).lower()
DisplayOwner(result) == Lower(result.owner_full)

----------------------------------------------------------------------------
(* The all-scores and high-scores reports *)

RECURSIVE RankedLines(_, _, _)
RankedLines(week_results, idx, safe_flag) ==
    IF week_results = <<>> THEN <<>>
    ELSE <<[kind |-> "entry",
            idx |-> idx,
            owner |-> mask_name(DisplayOwner(Head(week_results)), safe_flag),
            score |-> Head(week_results).score,
            week |-> Head(week_results).week]>>
         \o RankedLines(Tail(week_results), idx + 1, safe_flag)

RECURSIVE AllScoresWeeks(_, _, _, _)
AllScoresWeeks(rs, weeks, safe_flag, with_header) ==
    IF weeks = <<>> THEN <<>>
    ELSE (IF with_header THEN <<[kind |-> "week_header", week |-> Head(weeks)]>> ELSE <<>>)
         \o RankedLines(SortedByScore(WeekData(rs, Head(weeks))), 1, safe_flag)
         \o AllScoresWeeks(rs, Tail(weeks), safe_flag, with_header)

\* The lines printed: "=== Week w ===", then "  idx. owner: score points"
output_all_scores_human(rs, safe_flag) == AllScoresWeeks(rs, WeekKeys(rs), safe_flag, TRUE)

\* The file's rows: the header, then owner,score,week,index
write_csv_to_file(rs, safe_flag) ==
    <<[kind |-> "csv_header", cols |-> <<"owner", "score", "week", "index">>]>>
    \o AllScoresWeeks(rs, WeekKeys(rs), safe_flag, FALSE)

RECURSIVE HighScoreLines(_, _, _)
HighScoreLines(rs, weeks, safe_flag) ==
    IF weeks = <<>> THEN <<>>
    ELSE LET highest == MaxByScore(WeekData(rs, Head(weeks)))
         IN <<[kind |-> "high",
               week |-> Head(weeks),
               owner |-> mask_name(DisplayOwner(highest), safe_flag),
               score |-> highest.score]>>
            \o HighScoreLines(rs, Tail(weeks), safe_flag)

output_high_scores_human(rs, safe_flag) ==
    <<[kind |-> "high_header"]>> \o HighScoreLines(rs, WeekKeys(rs), safe_flag)

write_high_scores_csv(rs, safe_flag) ==
    <<[kind |-> "csv_header", cols |-> <<"week", "owner", "score">>]>>
    \o HighScoreLines(rs, WeekKeys(rs), safe_flag)

----------------------------------------------------------------------------
(* calculate_payouts: the ledger is a dict, kept as its items in insertion order *)

LedgerHas(ledger, owner) == \E i \in 1..Len(ledger) : ledger[i].owner = owner

\* payouts[owner]["wins"] += 1; payouts[owner]["total"] += payout_amount
CreditWin(ledger, owner, payout_amount) ==
    LET with_owner == IF LedgerHas(ledger, owner) THEN ledger
                      ELSE Append(ledger, [owner |-> owner, wins |-> 0, total |-> FloatZero])
    IN [i \in 1..Len(with_owner) |->
            IF with_owner[i].owner = owner
            THEN [owner |-> owner,
                  wins |-> with_owner[i].wins + 1,
                  total |-> FloatAdd(with_owner[i].total, payout_amount)]
            ELSE with_owner[i]]

\* A variant keying the ledger by the name as displayed
WinnerKeyMasked(week_results) == mask_name(Lower(MaxByScore(week_results).owner_full), safe)

\* The owner credited for a week: the key of the ledger
WinnerKey(week_results) == Lower(MaxByScore(week_results).owner_full)

RECURSIVE PayoutLoop(_, _, _, _)
PayoutLoop(rs, weeks, payout_amount, ledger) ==
    IF weeks = <<>> THEN ledger
    ELSE PayoutLoop(rs, Tail(weeks), payout_amount,
                    CreditWin(ledger, WinnerKey(WeekData(rs, Head(weeks))), payout_amount))

calculate_payouts(rs, payout_amount) == PayoutLoop(rs, WeekKeys(rs), payout_amount, <<>>)

----------------------------------------------------------------------------
(* The payouts reports *)

\* A variant ordering by total descending, then name ascending
PayoutKeyLessNameAscending(a, b) ==
    IF a.total # b.total THEN FloatLess(a.total, b.total) ELSE StrLess(b.owner, a.owner)

\* (total, owner) < (total, owner) on the sort keys
PayoutKeyLess(a, b) ==
    IF a.total # b.total THEN FloatLess(a.total, b.total) ELSE StrLess(a.owner, b.owner)

RECURSIVE InsertPayout(_, _)
InsertPayout(x, sorted) ==
    IF sorted = <<>> THEN <<x>>
    ELSE IF PayoutKeyLess(Head(sorted), x) THEN <<x>> \o sorted
    ELSE <<Head(sorted)>> \o InsertPayout(x, Tail(sorted))

RECURSIVE SortedPayoutsFrom(_, _)
SortedPayoutsFrom(items, sorted) ==
    IF items = <<>> THEN sorted
    ELSE SortedPayoutsFrom(Tail(items), InsertPayout(Head(items), sorted))

\* sorted(payouts.items(), key=lambda x: (x[1]["total"], x[0]), reverse=True)
SortedPayouts(ledger) == SortedPayoutsFrom(ledger, <<>>)

PayoutLines(ledger, safe_flag) ==
    LET sorted_payouts == SortedPayouts(ledger)
    IN [i \in 1..Len(sorted_payouts) |->
            [kind |-> "payout",
             owner |-> mask_name(sorted_payouts[i].owner, safe_flag),
             wins |-> sorted_payouts[i].wins,
             total |-> sorted_payouts[i].total]]

\* A variant printing nothing after the header for an empty ledger
OutputPayoutsWithoutMessage(ledger, payout_amount, safe_flag) ==
    <<[kind |-> "payout_header", payout_amount |-> payout_amount]>>
    \o PayoutLines(ledger, safe_flag)

\* The header, then "No winners found." for an empty ledger, else a line per owner
output_payouts_human(ledger, payout_amount, safe_flag) ==
    <<[kind |-> "payout_header", payout_amount |-> payout_amount]>>
    \o (IF ledger = <<>> THEN <<[kind |-> "no_winners"]>> ELSE PayoutLines(ledger, safe_flag))

write_payouts_csv(ledger, payout_amount, safe_flag) ==
    <<[kind |-> "csv_header", cols |-> <<"owner", "wins", "total_payout">>]>>
    \o PayoutLines(ledger, safe_flag)

----------------------------------------------------------------------------
(* The upstream league and the configuration the commands run against *)

Owner(display, first, last) ==
    [displayName |-> display, has_displayName |-> TRUE,
     firstName |-> first, has_firstName |-> TRUE,
     lastName |-> last, has_lastName |-> TRUE]

OwnerDisplayOnly(display) ==
    [displayName |-> display, has_displayName |-> TRUE,
     firstName |-> <<>>, has_firstName |-> FALSE,
     lastName |-> <<>>, has_lastName |-> FALSE]

\* The league's teams.  Team 1 is owned by "John Smith" (first name padded),
\* team 2 by "John Stone", team 3 by an owner known by display name only,
\* team 4 has no owner.
LeagueTeams ==
    <<[team_name |-> <<"T", "1">>, scores |-> <<>>,
       owners |-> <<Owner(<<"J", "S", " ">>, <<"J", "o", "h", "n", " ">>,
                          <<"S", "m", "i", "t", "h">>)>>],
      [team_name |-> <<"T", "2">>, scores |-> <<>>,
       owners |-> <<Owner(<<"S", "t", "o", "n", "e", "y">>, <<"J", "o", "h", "n">>,
                          <<"S", "t", "o", "n", "e">>)>>],
      [team_name |-> <<"T", "3">>, scores |-> <<>>,
       owners |-> <<OwnerDisplayOnly(<<"J", "o", "h", "n">>)>>],
      [team_name |-> <<"T", "4">>, scores |-> <<>>, owners |-> <<>>]>>

\* The scores a team may have in a week
Scores == {90, 100}

\* Who may meet whom (home, away)
Pairings == {<<1, 2>>, <<3, 4>>}

\* team i as a scoreboard shows it in week w, having scored s
TeamInWeek(i, w, s) == [LeagueTeams[i] EXCEPT !.scores = [k \in 1..w |-> s]]

Matchup(home, away, w, hs, as, complete) ==
    [home_team |-> TeamInWeek(home, w, hs),
     away_team |-> TeamInWeek(away, w, as),
     attrs |-> {"complete"}, complete |-> complete,
     winner |-> "None", played |-> FALSE]

\* What league.scoreboard(week=w) may do: raise, or return no matchup, a
\* matchup not yet played, or a played matchup.
ScoreboardResponses(w) ==
    {[raises |-> TRUE, matchups |-> <<>>], [raises |-> FALSE, matchups |-> <<>>],
     [raises |-> FALSE, matchups |-> <<Matchup(1, 2, w, 0, 0, FALSE)>>]}
    \cup {[raises |-> FALSE, matchups |-> <<Matchup(p[1], p[2], w, hs, as, TRUE)>>] :
             p \in Pairings, hs \in Scores, as \in Scores}

\* participants as written in config.yaml
RawParticipants ==
    {<<<<" ", "J", "o", "h", "n", " ", "S", "m", "i", "t", "h">>,
       <<"j", "o", "h", "n", " ", "s", "t", "o", "n", "e">>>>,
     <<<<"j", "o", "h", "n", " ", "s", "m", "i", "t", "h">>>>,
     <<<<"J", "o", "h", "n">>>>,
     <<<<"j", "o", "h", "n", " ", "s", "m", "i", "t", "h">>,
       <<"t", "o", "m", " ", "s", "t", "o", "n", "e">>>>}

\* WeeklyPotConfig.model_post_init: [name.strip().lower() for name in participants]
model_post_init(raw) == [i \in 1..Len(raw) |-> Lower(Strip(raw[i]))]

Commands == {"list_scores", "list_high_scores", "list_payouts"}

----------------------------------------------------------------------------
(* The commands of cli.py *)

\* "if not include_all:" in list_high_scores and list_payouts; list_scores has no
\* participants step.
UsesParticipants == cmd # "list_scores" /\ ~include_all

Idle == /\ input = <<>>
        /\ output = <<>>

Init ==
    /\ pc = "start"
    /\ cmd \in Commands
    /\ include_all \in (IF cmd = "list_scores" THEN {FALSE} ELSE BOOLEAN)
    /\ safe \in BOOLEAN
    /\ csv \in BOOLEAN
    /\ \E raw \in (IF UsesParticipants THEN RawParticipants
                   ELSE {CHOOSE r \in RawParticipants : Len(r) = 1 /\ Len(r[1]) = 4}) :
           participants = model_post_init(raw)
    /\ payout = FloatTen
    /\ start_week \in 1..(MaxWeek + 1)
    /\ end_week = MaxWeek
    /\ week = 0
    /\ all_results = None
    /\ results = <<>>
    /\ payouts = <<>>
    /\ stdout = <<>>
    /\ csv_file = None
    /\ stderr = <<>>
    /\ calls = <<>>
    /\ exit_code = -1
    /\ Idle

\* validate_participants, and the command's exit when it fails
Validate ==
    /\ pc = "start"
    /\ UsesParticipants
    /\ \E league_ok \in BOOLEAN :
        LET owners == get_league_owners(league_ok, LeagueTeams)
            missing == MissingParticipants(owners, participants)
        IN /\ calls' = Append(calls, [op |-> "League", ok |-> league_ok])
           /\ IF validate_participants(owners, participants)
              THEN /\ pc' = "fetch_init"
                   /\ exit_code' = exit_code
                   /\ stderr' = IF owners.is_none
                                THEN Append(stderr, [kind |-> "cannot_validate"])
                                ELSE stderr
              ELSE /\ pc' = "done"
                   /\ exit_code' = 1
                   /\ stderr' = Append(stderr, [kind |-> "missing_participants",
                                                names |-> SortedStrings(missing)])
    /\ UNCHANGED <<cmd, include_all, safe, csv, participants, payout, start_week, end_week,
                   week, all_results, results, payouts, stdout, csv_file, input, output>>

\* fetch_all_weeks up to its loop: League(...) returns or raises
LeagueInit ==
    /\ \/ pc = "fetch_init"
       \/ pc = "start" /\ ~UsesParticipants
    /\ \E league_ok \in BOOLEAN :
        /\ calls' = Append(calls, [op |-> "League", ok |-> league_ok])
        /\ IF league_ok
           THEN /\ all_results' = Some(<<>>)
                /\ week' = start_week
                /\ pc' = IF start_week <= end_week THEN "fetch_loop" ELSE "check"
                /\ stderr' = stderr
           ELSE /\ all_results' = None
                /\ week' = week
                /\ pc' = "check"
                /\ stderr' = Append(stderr, [kind |-> "league_init_error"])
    /\ UNCHANGED <<cmd, include_all, safe, csv, participants, payout, start_week, end_week,
                   results, payouts, stdout, csv_file, exit_code, input, output>>

\* A variant dropping the earlier weeks' records when a week yields none
AccumulateOrReset(all, week_results) ==
    IF Truthy(week_results) THEN Some(all.items \o week_results.items) ELSE Some(<<>>)

\* "if results: all_results.extend(results)", else only a warning
Accumulate(all, week_results) ==
    IF Truthy(week_results) THEN Some(all.items \o week_results.items) ELSE all

\* A variant stepping over every second week
NextWeekSkipping(w) == w + 2

\* The week after w in range(start_week, end_week + 1)
NextWeek(w) == w + 1

\* One iteration of fetch_all_weeks' loop
FetchWeek ==
    /\ pc = "fetch_loop"
    /\ \E response \in ScoreboardResponses(week) :
        LET week_results == fetch_week_scores(response, week)
        IN /\ calls' = Append(calls, [op |-> "scoreboard", week |-> week,
                                      ok |-> ~response.raises,
                                      matchups |-> response.matchups])
           /\ all_results' = Accumulate(all_results, week_results)
           /\ stderr' = IF Truthy(week_results) THEN stderr
                        ELSE (IF response.raises
                              THEN Append(stderr, [kind |-> "fetch_error", week |-> week])
                              ELSE stderr)
                             \o <<[kind |-> "fetch_warning", week |-> week]>>
    /\ week' = NextWeek(week)
    /\ pc' = IF NextWeek(week) <= end_week THEN "fetch_loop" ELSE "check"
    /\ UNCHANGED <<cmd, include_all, safe, csv, participants, payout, start_week, end_week,
                   results, payouts, stdout, csv_file, exit_code, input, output>>

\* The command after fetch_all_weeks: "if not results: ... raise typer.Exit(1)",
\* then filter_participants unless --include-all
CheckResults ==
    /\ pc = "check"
    /\ IF ~Truthy(all_results)
       THEN /\ pc' = "done"
            /\ exit_code' = 1
            /\ stderr' = Append(stderr, [kind |-> "no_data"])
            /\ results' = results
       ELSE /\ pc' = "report"
            /\ exit_code' = exit_code
            /\ stderr' = stderr
            /\ results' = IF UsesParticipants
                          THEN filter_participants(all_results.items, participants)
                          ELSE all_results.items
    /\ UNCHANGED <<cmd, include_all, safe, csv, participants, payout, start_week, end_week,
                   week, all_results, payouts, stdout, csv_file, calls, input, output>>

\* The command's report: the human output, then the CSV file with --csv
Report ==
    /\ pc = "report"
    /\ \/ /\ cmd = "list_scores"
          /\ stdout' = output_all_scores_human(results, safe)
          /\ csv_file' = IF csv THEN Some(write_csv_to_file(results, safe)) ELSE None
          /\ payouts' = payouts
       \/ /\ cmd = "list_high_scores"
          /\ stdout' = output_high_scores_human(results, safe)
          /\ csv_file' = IF csv THEN Some(write_high_scores_csv(results, safe)) ELSE None
          /\ payouts' = payouts
       \/ /\ cmd = "list_payouts"
          /\ payouts' = calculate_payouts(results, payout)
          /\ stdout' = output_payouts_human(payouts', payout, safe)
          /\ csv_file' = IF csv THEN Some(write_payouts_csv(payouts', payout, safe)) ELSE None
    /\ pc' = "done"
    /\ exit_code' = 0
    /\ UNCHANGED <<cmd, include_all, safe, csv, participants, payout, start_week, end_week,
                   week, all_results, results, stderr, calls, input, output>>

Next == Validate \/ LeagueInit \/ FetchWeek \/ CheckResults \/ Report

Spec == Init /\ [][Next]_vars

----------------------------------------------------------------------------
(* The functions of scores.py applied on their own, to arguments drawn from *)
(* bounded sets                                                            *)

\* No command is running
NoCommand ==
    /\ cmd = "none"
    /\ include_all = FALSE
    /\ csv = FALSE
    /\ start_week = 1
    /\ end_week = 0
    /\ week = 0
    /\ stderr = <<>>
    /\ calls = <<>>
    /\ exit_code = -1

\* A ScoreRecord whose owner has both names
Record(w, score, full, display) ==
    [team |-> <<"T">>, score |-> score, week |-> w, owner |-> display, owner_full |-> full]

\* All sequences over S of length at most n
RECURSIVE SeqsUpTo(_, _)
SeqsUpTo(S, n) ==
    IF n = 0 THEN {<<>>}
    ELSE LET shorter == SeqsUpTo(S, n - 1)
         IN shorter \cup {Append(q, x) : q \in shorter, x \in S}

(* mask_name *)

MaskChars == {"a", "b", " ", "."}

InitMask ==
    /\ pc = "mask"
    /\ safe \in BOOLEAN
    /\ input \in StringsUpTo(MaskChars, MaxNameLen)
    /\ output = <<>>
    /\ participants = <<>>
    /\ payout = FloatZero
    /\ all_results = None
    /\ results = <<>>
    /\ payouts = <<>>
    /\ stdout = <<>>
    /\ csv_file = None
    /\ NoCommand

\* mask_name applied to the name, then to what it returned
MaskName ==
    /\ pc = "mask"
    /\ Len(output) < 2
    /\ output' = Append(output, mask_name(IF output = <<>> THEN input ELSE output[Len(output)],
                                          safe))
    /\ UNCHANGED <<pc, cmd, include_all, safe, csv, participants, payout, start_week,
                   end_week, week, all_results, results, payouts, stdout, csv_file, stderr,
                   calls, exit_code, input>>

SpecMask == InitMask /\ [][MaskName]_vars

(* filter_participants *)

\* Full names and display names of the records, as the upstream gives them
FilterFullNames == {<<"J", "a">>, <<" ", "j", "a", " ">>, <<"j">>, <<"a", "j">>, <<>>}
FilterDisplayNames == {<<"a">>, <<"S">>, <<>>}

\* Names as written in config.yaml
FilterRawParticipants ==
    {<<"j", "a">>, <<"J", " ">>, <<"a">>, <<"j", "a", "b">>, <<"s">>, <<>>}

InitFilter ==
    /\ pc = "filter"
    /\ \E rs \in SeqsUpTo({Record(1, 90, f, d) : f \in FilterFullNames,
                                                d \in FilterDisplayNames},
                          MaxFilterRecords) :
           all_results = Some(rs)
    /\ \E names \in SUBSET FilterRawParticipants :
           /\ Cardinality(names) <= MaxParticipants
           /\ participants = model_post_init(SortedStrings(names))
    /\ results = <<>>
    /\ safe = FALSE
    /\ payout = FloatZero
    /\ payouts = <<>>
    /\ stdout = <<>>
    /\ csv_file = None
    /\ NoCommand
    /\ Idle

FilterParticipants ==
    /\ pc = "filter"
    /\ results' = filter_participants(all_results.items, participants)
    /\ pc' = "filtered"
    /\ UNCHANGED <<cmd, include_all, safe, csv, participants, payout, start_week, end_week,
                   week, all_results, payouts, stdout, csv_file, stderr, calls, exit_code,
                   input, output>>

SpecFilter == InitFilter /\ [][FilterParticipants]_vars

(* The all-scores reports *)

\* The two records of a played matchup, home then away
ScoreMatchups ==
    {<<Record(w, hs, o[1], o[1]), Record(w, as, o[2], o[2])>> :
        w \in 1..2, hs \in Scores, as \in Scores,
        o \in {<<<<"A">>, <<"B">>>>, <<<<"J">>, <<"S">>>>}}

\* The records of up to n matchups
RECURSIVE MatchupResults(_)
MatchupResults(n) ==
    IF n = 0 THEN {<<>>}
    ELSE LET fewer == MatchupResults(n - 1)
         IN fewer \cup {rs \o m : rs \in fewer, m \in ScoreMatchups}

InitScores ==
    /\ pc = "scores"
    /\ safe \in BOOLEAN
    /\ results \in MatchupResults(MaxScoreMatchups)
    /\ all_results = Some(results)
    /\ participants = <<>>
    /\ payout = FloatZero
    /\ payouts = <<>>
    /\ stdout = <<>>
    /\ csv_file = None
    /\ NoCommand
    /\ Idle

OutputAllScoresHuman ==
    /\ pc = "scores"
    /\ stdout' = output_all_scores_human(results, safe)
    /\ pc' = "printed"
    /\ UNCHANGED <<cmd, include_all, safe, csv, participants, payout, start_week, end_week,
                   week, all_results, results, payouts, csv_file, stderr, calls, exit_code,
                   input, output>>

WriteCsvToFile ==
    /\ pc = "printed"
    /\ csv_file' = Some(write_csv_to_file(results, safe))
    /\ pc' = "written"
    /\ UNCHANGED <<cmd, include_all, safe, csv, participants, payout, start_week, end_week,
                   week, all_results, results, payouts, stdout, stderr, calls, exit_code,
                   input, output>>

SpecScores == InitScores /\ [][OutputAllScoresHuman \/ WriteCsvToFile]_vars

(* calculate_payouts and the payouts reports *)

\* What a week may hold: nothing, or two records with either owner ahead, or (in
\* the first two weeks) a third owner ahead
WeekGroups(w) ==
    {<<>>,
     <<Record(w, 100, <<"A">>, <<"A">>), Record(w, 90, <<"B">>, <<"B">>)>>,
     <<Record(w, 90, <<"A">>, <<"A">>), Record(w, 100, <<"B">>, <<"B">>)>>}
    \cup (IF w <= 2
          THEN {<<Record(w, 100, <<"A", "b">>, <<"A", "b">>), Record(w, 90, <<"B">>, <<"B">>)>>}
          ELSE {})

RECURSIVE WeeklyResults(_)
WeeklyResults(n) ==
    IF n = 0 THEN {<<>>}
    ELSE {rs \o g : rs \in WeeklyResults(n - 1), g \in WeekGroups(n)}

\* weeks {1: [(A,100),(B,90)], 2: [(A,80),(B,95)]}
TwoWeekScenario ==
    <<Record(1, 100, <<"A">>, <<"A">>), Record(1, 90, <<"B">>, <<"B">>),
      Record(2, 80, <<"A">>, <<"A">>), Record(2, 95, <<"B">>, <<"B">>)>>

InitPayouts ==
    /\ pc = "payouts"
    /\ safe \in BOOLEAN
    /\ payout \in {FloatTen, Float4_99}
    /\ results \in WeeklyResults(PayoutWeeks) \cup {TwoWeekScenario}
    /\ all_results = Some(results)
    /\ participants = <<>>
    /\ payouts = <<>>
    /\ stdout = <<>>
    /\ csv_file = None
    /\ NoCommand
    /\ Idle

CalculatePayouts ==
    /\ pc = "payouts"
    /\ payouts' = calculate_payouts(results, payout)
    /\ pc' = "calculated"
    /\ UNCHANGED <<cmd, include_all, safe, csv, participants, payout, start_week, end_week,
                   week, all_results, results, stdout, csv_file, stderr, calls, exit_code,
                   input, output>>

OutputPayoutsHuman ==
    /\ pc = "calculated"
    /\ stdout' = output_payouts_human(payouts, payout, safe)
    /\ pc' = "printed"
    /\ UNCHANGED <<cmd, include_all, safe, csv, participants, payout, start_week, end_week,
                   week, all_results, results, payouts, csv_file, stderr, calls, exit_code,
                   input, output>>

WritePayoutsCsv ==
    /\ pc = "printed"
    /\ csv_file' = Some(write_payouts_csv(payouts, payout, safe))
    /\ pc' = "written"
    /\ UNCHANGED <<cmd, include_all, safe, csv, participants, payout, start_week, end_week,
                   week, all_results, results, payouts, stdout, stderr, calls, exit_code,
                   input, output>>

SpecPayouts == InitPayouts /\ [][CalculatePayouts \/ OutputPayoutsHuman \/ WritePayoutsCsv]_vars

----------------------------------------------------------------------------
(* fetch_week_scores *)

\* A matchup attribute: absent, or present with one of two values
AttrStates == {"absent", "no", "yes"}

\* What the two teams scored: the home team's scores may end before the week
ScoreStates == {"none", "home", "away_short_home"}

\* team i with its scores up to week n, the last of them s
TeamWithScores(i, n, s) == [LeagueTeams[i] EXCEPT !.scores = [k \in 1..n |-> s]]

\* A matchup object as league.scoreboard returns it: any of the attributes
\* complete, winner, played may be missing
MatchupObject(home, away, w, complete, winner, played, scored) ==
    [home_team |-> CASE scored = "none" -> TeamWithScores(home, w, 0)
                     [] scored = "home" -> TeamWithScores(home, w, 90)
                     [] OTHER -> TeamWithScores(home, w - 1, 90),
     away_team |-> CASE scored = "away_short_home" -> TeamWithScores(away, w, 100)
                     [] OTHER -> TeamWithScores(away, w, 0),
     attrs |-> {a \in {"complete", "winner", "played"} :
                   \/ a = "complete" /\ complete # "absent"
                   \/ a = "winner" /\ winner # "absent"
                   \/ a = "played" /\ played # "absent"},
     complete |-> (complete = "yes"),
     winner |-> IF winner = "yes" THEN "HOME" ELSE "None",
     played |-> (played = "yes")]

\* The k-th matchup of a week's scoreboard is between teams 2k - 1 and 2k
PairingAt(k) == <<2 * k - 1, 2 * k>>

\* A week has at most one matchup for every two teams of the league
WeekMatchups == Len(LeagueTeams) \div 2

MatchupObjects(w, k) ==
    {MatchupObject(PairingAt(k)[1], PairingAt(k)[2], w, c, wn, pl, sc) :
        c \in AttrStates, wn \in AttrStates, pl \in AttrStates, sc \in ScoreStates}

\* The scoreboards of week w with up to n matchups
RECURSIVE Scoreboards(_, _)
Scoreboards(w, n) ==
    IF n = 0 THEN {<<>>}
    ELSE LET fewer == Scoreboards(w, n - 1)
         IN fewer \cup {Append(ms, m) : ms \in {x \in fewer : Len(x) = n - 1},
                                        m \in MatchupObjects(w, n)}

InitFetch ==
    /\ pc = "fetch"
    /\ week \in 1..MaxWeek
    /\ \E raises \in BOOLEAN :
        \E matchups \in (IF raises THEN {<<>>}
                         ELSE Scoreboards(week, WeekMatchups)) :
            input = [raises |-> raises, matchups |-> matchups]
    /\ output = <<>>
    /\ cmd = "none"
    /\ include_all = FALSE
    /\ safe = FALSE
    /\ csv = FALSE
    /\ start_week = week
    /\ end_week = week
    /\ participants = <<>>
    /\ payout = FloatZero
    /\ all_results = None
    /\ results = <<>>
    /\ payouts = <<>>
    /\ stdout = <<>>
    /\ csv_file = None
    /\ stderr = <<>>
    /\ calls = <<>>
    /\ exit_code = -1

\* fetch_week_scores(league, week) on what the scoreboard call does
FetchWeekScores ==
    /\ pc = "fetch"
    /\ output' = fetch_week_scores(input, week)
    /\ stderr' = IF input.raises THEN Append(stderr, [kind |-> "fetch_error", week |-> week])
                 ELSE stderr
    /\ pc' = "fetched"
    /\ UNCHANGED <<cmd, include_all, safe, csv, participants, payout, start_week, end_week,
                   week, all_results, results, payouts, stdout, csv_file, calls, exit_code,
                   input>>

SpecFetch == InitFetch /\ [][FetchWeekScores]_vars

----------------------------------------------------------------------------
(* Vocabulary of the properties *)

Range(f) == {f[i] : i \in DOMAIN f}

RECURSIVE SumOver(_, _)
SumOver(f, S) ==
    IF S = {} THEN 0
    ELSE LET x == CHOOSE y \in S : TRUE IN f[x] + SumOver(f, S \ {x})

\* The command ran to its end
Done == pc = "done"

\* Index in calls of the League(...) call of fetch_all_weeks: validate_participants
\* makes one of its own before it.
FetchLeagueCall == IF UsesParticipants THEN 2 ELSE 1

FetchStarted == Len(calls) >= FetchLeagueCall

ScoreboardCalls == SelectSeq(calls, LAMBDA c : c.op = "scoreboard")

\* The records a scoreboard call contributed
CallRecords(c) == IF c.ok THEN MatchupRecords(c.matchups, c.week) ELSE <<>>

RECURSIVE ConcatCallRecords(_)
ConcatCallRecords(cs) ==
    IF cs = <<>> THEN <<>> ELSE CallRecords(Head(cs)) \o ConcatCallRecords(Tail(cs))

\* The owners of the league as the roster really is
RosterNames == get_league_owners(TRUE, LeagueTeams).names

\* The configured participants that are no owner of the league
Unmatched == Range(participants) \ RosterNames

\* The normalized names a record is matched by
RecordNames(r) == {Lower(Strip(r.owner_full)), Lower(Strip(r.owner))}

\* The four-way rule: p equals, or is contained in, the full or the display name
FourWay(r, p) == \E n \in RecordNames(r) : p = n \/ IsSubstring(p, n)

\* Matching in either direction: also a name contained in p
EitherWay(r, p) == \E n \in RecordNames(r) : p = n \/ IsSubstring(p, n) \/ IsSubstring(n, p)

\* The first position of the week's sequence holding the week's highest score
FirstMaxIndex(week_results) ==
    CHOOSE i \in 1..Len(week_results) :
        /\ \A j \in 1..Len(week_results) : week_results[j].score <= week_results[i].score
        /\ \A j \in 1..(i - 1) : week_results[j].score < week_results[i].score

WeeksOf(rs) == {rs[i].week : i \in 1..Len(rs)}

\* The unmasked, lowercased name of the week's winner among rs
WeekWinner(rs, w) ==
    LET week_results == WeekData(rs, w)
    IN Lower(week_results[FirstMaxIndex(week_results)].owner_full)

WeeksWonBy(rs, owner) == {w \in WeeksOf(rs) : WeekWinner(rs, w) = owner}

\* The exact product n * x of a natural number n and the natural x
RECURSIVE BitsTimes(_, _)
BitsTimes(n, x) == IF n = 0 THEN <<>> ELSE BitsAdd(BitsTimes(n - 1, x), x)

\* n * x for an int n and a float x: the exact product, rounded once
FloatTimesInt(n, x) == FloatRound(BitsTimes(n, x))

\* payout_amount added n times to 0.0
RECURSIVE AddedTimes(_, _)
AddedTimes(n, payout_amount) ==
    IF n = 0 THEN FloatZero ELSE FloatAdd(AddedTimes(n - 1, payout_amount), payout_amount)

PayoutsDone == Done /\ cmd = "list_payouts" /\ exit_code = 0

----------------------------------------------------------------------------
(* C1 *)

\* C1: the sum of wins over the ledger equals the number of distinct weeks in the
\* input, and every entry's total equals its wins times the payout amount.
C1_WinsAndTotals ==
    pc \in {"calculated", "printed", "written"} =>
        /\ SumOver([i \in 1..Len(payouts) |-> payouts[i].wins], 1..Len(payouts))
              = Cardinality(WeeksOf(results))
        /\ \A i \in 1..Len(payouts) :
              payouts[i].total = FloatTimesInt(payouts[i].wins, payout)

----------------------------------------------------------------------------
(* C2 *)

----------------------------------------------------------------------------
(* C3 *)

\* C3: the Participant Filter matches by substring in either direction: every
\* fetched record whose full or display name equals, contains, or is contained in
\* an allow-list entry is retained.
C3_EitherDirectionRetained ==
    (pc = "report" /\ UsesParticipants) =>
        \A i \in 1..Len(all_results.items) :
            (\E p \in Range(participants) : EitherWay(all_results.items[i], p))
                => all_results.items[i] \in Range(results)

----------------------------------------------------------------------------
(* C4 *)

Entries(lines) == SelectSeq(lines, LAMBDA l : l.kind = "entry")

\* The entries of a report are those of rs ranked: weeks ascending; within a
\* week as many entries as records, numbered from 1, scores descending, and the
\* entries of one score in the order of the week's records of that score.
Ranked(lines, rs, safe_flag) ==
    LET entries == Entries(lines)
    IN /\ Len(entries) = Len(rs)
       /\ \A i \in 1..(Len(entries) - 1) : entries[i].week <= entries[i + 1].week
       /\ \A w \in WeeksOf(rs) :
             LET of_week == SelectSeq(entries, LAMBDA l : l.week = w)
                 week_results == WeekData(rs, w)
             IN /\ Len(of_week) = Len(week_results)
                /\ \A k \in 1..Len(of_week) : of_week[k].idx = k
                /\ \A k \in 1..(Len(of_week) - 1) : of_week[k].score >= of_week[k + 1].score
                /\ \A s \in {week_results[k].score : k \in 1..Len(week_results)} :
                      LET shown == SelectSeq(of_week, LAMBDA l : l.score = s)
                          given == SelectSeq(week_results, LAMBDA r : r.score = s)
                      IN /\ Len(shown) = Len(given)
                         /\ \A k \in 1..Len(shown) :
                               shown[k].owner = mask_name(Lower(given[k].owner_full),
                                                          safe_flag)

\* Each week's entries follow the week's header in the human report
HeadersLeadWeeks(lines) ==
    \A i \in 1..Len(lines) :
        lines[i].kind = "entry" =>
            \E h \in 1..(i - 1) :
                /\ lines[h].kind = "week_header" /\ lines[h].week = lines[i].week
                /\ \A k \in (h + 1)..i : lines[k].kind = "entry"

\* C4: in both all-scores reports each week's entries are a permutation of the
\* week's records ordered by score descending, equal scores in fetch order, ranked
\* 1..n within the week, weeks ascending.
C4_RankedStable ==
    /\ pc \in {"printed", "written"} =>
          Ranked(stdout, results, safe) /\ HeadersLeadWeeks(stdout)
    /\ pc = "written" =>
          /\ Ranked(csv_file.items, results, safe)
          /\ csv_file.items[1].kind = "csv_header"

\* A week of two matchups whose home teams scored less than the away team of
\* the first, which ties with the home team of the second
C4_Witness ==
    /\ pc = "written"
    /\ Len(results) = 4
    /\ \A i \in 1..4 : results[i].week = results[1].week
    /\ \A i, j \in 1..4 : results[i].owner_full = results[j].owner_full => i = j
    /\ results[1].score < results[2].score
    /\ results[3].score = results[2].score
    /\ results[4].score = results[1].score
    /\ [i \in 1..4 |-> Entries(stdout)[i].owner]
          = [i \in 1..4 |-> mask_name(Lower(results[<<2, 3, 1, 4>>[i]].owner_full), safe)]
    /\ [i \in 1..4 |-> Entries(csv_file.items)[i].idx] = <<1, 2, 3, 4>>

----------------------------------------------------------------------------
(* C5 *)

\* C5 as stated: with the league handle obtained, the run is fatal exactly when
\* every requested week's fetch fails.
C5_FatalIffEveryWeekFails ==
    (Done /\ FetchStarted /\ calls[FetchLeagueCall].ok) =>
        (exit_code = 1 <=> \A i \in 1..Len(ScoreboardCalls) : ~ScoreboardCalls[i].ok)

\* No requested week yielded a record
NoRecordFetched ==
    \/ ~calls[FetchLeagueCall].ok
    \/ \A i \in 1..Len(ScoreboardCalls) : CallRecords(ScoreboardCalls[i]) = <<>>

\* An iteration of the loop: the week asked for is the loop's week; a failed week
\* leaves the accumulated records as they are, a successful one appends its
\* records; and the loop goes on to the next week while one remains.
C5_WeekStep ==
    pc = "fetch_loop" =>
        LET c == calls'[Len(calls')]
        IN /\ Len(calls') = Len(calls) + 1
           /\ c.op = "scoreboard" /\ c.week = week
           /\ ~c.ok => all_results' = all_results
           /\ all_results'.items = all_results.items \o CallRecords(c)
           /\ week' = week + 1
           /\ pc' = IF week < end_week THEN "fetch_loop" ELSE "check"

\* The end of a run that reached fetch_all_weeks: fatal exactly when no record was
\* fetched; otherwise the report is made from the records of the weeks that
\* yielded some.
C5_RunEnd ==
    (Done /\ FetchStarted) =>
        /\ exit_code = 1 <=> NoRecordFetched
        /\ exit_code = 0 =>
              /\ all_results.items = ConcatCallRecords(ScoreboardCalls)
              /\ Len(ScoreboardCalls) = end_week - start_week + 1
              /\ Range(results) \subseteq Range(all_results.items)
              /\ stdout # <<>>

\* C5 (amended): a failed week contributes no records, leaves the records of
\* earlier weeks unchanged and does not stop the loop; the run is fatal exactly
\* when no requested week yields a record (each week fails or has no played
\* matchup, or the league handle cannot be obtained), and otherwise reports the
\* records of the weeks that yielded some.
C5_FailedWeekSkipped == [][C5_WeekStep]_vars /\ []C5_RunEnd

\* A run that lost its last week, kept the records of an earlier one and reported
C5_Witness ==
    /\ Done /\ exit_code = 0
    /\ Len(ScoreboardCalls) >= 2
    /\ ScoreboardCalls[1].ok
    /\ ~ScoreboardCalls[Len(ScoreboardCalls)].ok
    /\ all_results.items = CallRecords(ScoreboardCalls[1])
    /\ all_results.items # <<>>

----------------------------------------------------------------------------
(* C6 *)

\* C6 as stated: when a configured participant has no matching owner in the
\* league's roster, no weekly scoreboard is ever fetched.
C6_UnmatchedNeverFetches ==
    (UsesParticipants /\ Unmatched # {}) => ScoreboardCalls = <<>>

\* C6 (amended): when the roster has been fetched and a configured participant has
\* no matching owner in it, the command ends with exit code 1, having listed
\* exactly the unmatched names, without any weekly fetch; and a weekly fetch
\* occurs only after validate_participants has returned true, which it does when
\* every participant is matched or the roster could not be fetched.
C6_ValidationBeforeFetch ==
    UsesParticipants =>
        /\ (Len(calls) >= 1 /\ calls[1].ok /\ Unmatched # {}) =>
              /\ Done /\ exit_code = 1
              /\ Len(calls) = 1
              /\ \E i \in 1..Len(stderr) :
                    /\ stderr[i].kind = "missing_participants"
                    /\ Range(stderr[i].names) = Unmatched
                    /\ Len(stderr[i].names) = Cardinality(Unmatched)
        /\ ScoreboardCalls # <<>> =>
              /\ calls[1].op = "League"
              /\ calls[1].ok => Unmatched = {}
              /\ ~calls[1].ok => \E i \in 1..Len(stderr) : stderr[i].kind = "cannot_validate"
              /\ calls[2].op = "League" /\ calls[2].ok

\* The command has ended on an unmatched participant
C6_Witness ==
    /\ UsesParticipants /\ Unmatched # {}
    /\ Done /\ exit_code = 1
    /\ Len(calls) = 1 /\ calls[1].ok

----------------------------------------------------------------------------
(* C7 *)

\* C7: for each week present in the records given to calculate_payouts (the
\* filtered records when filtering is on) exactly one win is credited, to the
\* owner of the first record of the week, in fetch order, holding the week's
\* highest score among those records; the weeks are processed in ascending
\* order; a record the filter removed is never the winner.
C7_FirstMaxWins ==
    PayoutsDone =>
        /\ \A w \in WeeksOf(results) : LedgerHas(payouts, WeekWinner(results, w))
        /\ \A i \in 1..Len(payouts) :
              /\ payouts[i].wins = Cardinality(WeeksWonBy(results, payouts[i].owner))
              /\ payouts[i].wins >= 1
              /\ \A j \in 1..Len(payouts) : payouts[j].owner = payouts[i].owner => j = i
        /\ SumOver([i \in 1..Len(payouts) |-> payouts[i].wins], 1..Len(payouts))
              = Cardinality(WeeksOf(results))
        /\ \A i, j \in 1..Len(payouts) :
              i < j => \E w \in WeeksWonBy(results, payouts[i].owner) :
                          \A v \in WeeksWonBy(results, payouts[j].owner) : w < v
        /\ \A i \in 1..Len(payouts) :
              \E k \in 1..Len(results) : Lower(results[k].owner_full) = payouts[i].owner

\* A week whose highest score belongs to a record the filter removed, and a week
\* whose highest score is shared, won by the first of the two
C7_Witness ==
    /\ PayoutsDone /\ UsesParticipants
    /\ \E w \in WeeksOf(results) :
          \E i \in 1..Len(all_results.items) :
              /\ all_results.items[i].week = w
              /\ all_results.items[i] \notin Range(results)
              /\ \A k \in 1..Len(results) :
                    results[k].week = w => results[k].score < all_results.items[i].score
    /\ \E w \in WeeksOf(results) :
          LET week_results == WeekData(results, w)
          IN /\ Len(week_results) = 2
             /\ week_results[1].score = week_results[2].score
             /\ LedgerHas(payouts, Lower(week_results[1].owner_full))

----------------------------------------------------------------------------
(* C8 *)

PayoutEntries(lines) == SelectSeq(lines, LAMBDA l : l.kind = "payout")

\* x comes before y: a higher total, or the same total and a greater name
ListedBefore(x, y) ==
    \/ FloatLess(y.total, x.total)
    \/ x.total = y.total /\ StrLess(y.owner, x.owner)

\* Every ledger entry is listed once, after exactly the entries that come before it
ListedInOrder(lines, ledger, safe_flag) ==
    LET entries == PayoutEntries(lines)
    IN /\ Len(entries) = Len(ledger)
       /\ \A i \in 1..Len(ledger) :
             LET place == 1 + Cardinality({j \in 1..Len(ledger) :
                                              ListedBefore(ledger[j], ledger[i])})
             IN /\ entries[place].owner = mask_name(ledger[i].owner, safe_flag)
                /\ entries[place].wins = ledger[i].wins
                /\ entries[place].total = ledger[i].total

\* C8: both payouts reports list the ledger's entries in descending order of
\* (total, unmasked name), masked or not.
C8_PayoutsOrder ==
    /\ pc \in {"printed", "written"} => ListedInOrder(stdout, payouts, safe)
    /\ pc = "written" => ListedInOrder(csv_file.items, payouts, safe)

\* The two-week scenario with payout 10: a and b have one win each, b is listed
\* first
C8_Witness ==
    /\ pc = "written"
    /\ results = TwoWeekScenario
    /\ payout = FloatTen
    /\ payouts = <<[owner |-> <<"a">>, wins |-> 1, total |-> FloatTen],
                   [owner |-> <<"b">>, wins |-> 1, total |-> FloatTen]>>
    /\ PayoutEntries(stdout)[1].owner = <<"b">>
    /\ PayoutEntries(stdout)[2].owner = <<"a">>
    /\ PayoutEntries(csv_file.items)[1].owner = <<"b">>

----------------------------------------------------------------------------
(* C9 *)

\* The positions where a token of s starts
TokenStarts(s) ==
    {i \in 1..Len(s) : s[i] \notin Whitespace /\ (i = 1 \/ s[i - 1] \in Whitespace)}

TokenEnds(s) ==
    {i \in 1..Len(s) : s[i] \notin Whitespace /\ (i = Len(s) \/ s[i + 1] \in Whitespace)}

Least(S) == CHOOSE x \in S : \A y \in S : x <= y
Greatest(S) == CHOOSE x \in S : \A y \in S : y <= x

\* The first token, a space, the first character of the last token, a period
FirstAndInitial(s) ==
    SubSeq(s, Least(TokenStarts(s)), Least(TokenEnds(s)))
        \o <<" ", s[Greatest(TokenStarts(s))], ".">>

\* C9: mask_name without safe is the identity; with safe it returns a name of
\* fewer than two tokens unchanged, and otherwise the first token, a space, the
\* initial of the last token and a period; masking the masked name changes nothing.
C9_MaskIdempotent ==
    /\ Len(output) >= 1 =>
          output[1] = IF safe /\ Cardinality(TokenStarts(input)) >= 2
                      THEN FirstAndInitial(input) ELSE input
    /\ Len(output) = 2 => output[2] = output[1]

\* A name of three tokens masked twice
C9_Witness ==
    /\ safe
    /\ Len(output) = 2
    /\ Cardinality(TokenStarts(input)) = 3
    /\ output[1] # input

----------------------------------------------------------------------------
(* C10 *)

\* The records the filter keeps, from the four-way rule
Retained(rs, names) == SelectSeq(rs, LAMBDA r : \E p \in Range(names) : FourWay(r, p))

\* C10: safe mode is display-only.  The records retained, the week groups, the
\* weekly winners and the ledger (its unmasked lowercase keys, wins and totals)
\* are determined by the fetched records, the participants, --include-all and
\* the payout, whatever the safe flag; owners whose masked names coincide keep
\* separate entries.
C10_SafeIsDisplayOnly ==
    (Done /\ exit_code = 0) =>
        /\ results = IF UsesParticipants THEN Retained(all_results.items, participants)
                     ELSE all_results.items
        /\ cmd = "list_high_scores" =>
              /\ Len(stdout) = 1 + Cardinality(WeeksOf(results))
              /\ \A i \in 2..Len(stdout) :
                    stdout[i].owner = mask_name(WeekWinner(results, stdout[i].week), safe)
        /\ cmd = "list_payouts" =>
              /\ {payouts[i].owner : i \in 1..Len(payouts)}
                    = {WeekWinner(results, w) : w \in WeeksOf(results)}
              /\ Len(payouts) = Cardinality({WeekWinner(results, w) : w \in WeeksOf(results)})
              /\ \A i \in 1..Len(payouts) :
                    /\ payouts[i].wins = Cardinality(WeeksWonBy(results, payouts[i].owner))
                    /\ payouts[i].total = AddedTimes(payouts[i].wins, payout)
              /\ LET lines == SelectSeq(stdout, LAMBDA l : l.kind = "payout")
                 IN /\ Len(lines) = Len(payouts)
                    /\ \A i \in 1..Len(lines) :
                          \E k \in 1..Len(payouts) :
                              /\ lines[i].owner = mask_name(payouts[k].owner, safe)
                              /\ lines[i].wins = payouts[k].wins
                              /\ lines[i].total = payouts[k].total

\* With --safe, two owners shown under the same masked name, each with an entry
C10_Witness ==
    /\ PayoutsDone /\ safe
    /\ Len(payouts) = 2
    /\ payouts[1].owner # payouts[2].owner
    /\ mask_name(payouts[1].owner, TRUE) = mask_name(payouts[2].owner, TRUE)
    /\ stdout[2].owner = stdout[3].owner

----------------------------------------------------------------------------
(* C11 *)

\* The run fetched records and participant filtering retained none of them
FilteredToNothing == Done /\ UsesParticipants /\ Truthy(all_results) /\ results = <<>>

\* C11: when participant filtering leaves no record, the command still ends
\* with exit code 0.  calculate_payouts of no record is the empty ledger;
\* list_payouts prints the summary header and the "no winners" line and no
\* ledger line, and its CSV file holds the header row only; list_high_scores
\* prints its header only, and its CSV file holds the header row only.
C11_EmptyAfterFilterIsNoError ==
    /\ calculate_payouts(<<>>, payout) = <<>>
    /\ FilteredToNothing =>
        /\ exit_code = 0
        /\ \A i \in 1..Len(stderr) : stderr[i].kind # "no_data"
        /\ cmd = "list_payouts" =>
            /\ payouts = <<>>
            /\ stdout = <<[kind |-> "payout_header", payout_amount |-> payout],
                          [kind |-> "no_winners"]>>
            /\ csv_file = IF csv
                          THEN Some(<<[kind |-> "csv_header",
                                       cols |-> <<"owner", "wins", "total_payout">>]>>)
                          ELSE None
        /\ cmd = "list_high_scores" =>
            /\ stdout = <<[kind |-> "high_header"]>>
            /\ csv_file = IF csv
                          THEN Some(<<[kind |-> "csv_header",
                                       cols |-> <<"week", "owner", "score">>]>>)
                          ELSE None

\* list_payouts --csv fetched the records of a played matchup, none of them a
\* participant's, and reported an empty ledger
C11_Witness ==
    /\ FilteredToNothing
    /\ cmd = "list_payouts"
    /\ csv
    /\ Len(all_results.items) >= 2
    /\ \E i \in 1..Len(stdout) : stdout[i].kind = "no_winners"
    /\ Len(csv_file.items) = 1

----------------------------------------------------------------------------
(* C12 *)

\* The calls that initialize a league handle
LeagueCalls == SelectSeq(calls, LAMBDA c : c.op = "League")

\* The weeks start_week..end_week in ascending order, none when the range is empty
RequestedWeeks ==
    [k \in 1..(IF end_week >= start_week THEN end_week - start_week + 1 ELSE 0) |->
        start_week + k - 1]

WeeksCalled == [k \in 1..Len(ScoreboardCalls) |-> ScoreboardCalls[k].week]

\* C12 as stated: a finished run whose fetch obtained its league handle has
\* made exactly one initializing call, then one scoreboard call for each
\* requested week in ascending order.
C12_OneInitThenEveryWeek ==
    (Done /\ all_results # None) =>
        /\ Len(LeagueCalls) = 1
        /\ calls[1].op = "League"
        /\ WeeksCalled = RequestedWeeks

\* Every step issues at most one call, after the calls already made, and a
\* scoreboard call only in the fetch loop
C12_CallStep ==
    /\ Len(calls') <= Len(calls) + 1
    /\ SubSeq(calls', 1, Len(calls)) = calls
    /\ \A i \in (Len(calls) + 1)..Len(calls') :
           calls'[i].op = "scoreboard" => pc = "fetch_loop" /\ calls'[i].week = week

\* The calls made so far: the initializing call of validate_participants when
\* participants are validated, then the initializing call of fetch_all_weeks,
\* then the scoreboard calls, which are for the first weeks of the range in
\* ascending order and follow a successful initialization only
C12_CallsSoFar ==
    /\ \A i \in 1..Len(calls) : calls[i].op = "League" <=> i <= FetchLeagueCall
    /\ Len(WeeksCalled) <= Len(RequestedWeeks)
    /\ WeeksCalled = SubSeq(RequestedWeeks, 1, Len(WeeksCalled))
    /\ WeeksCalled # <<>> => calls[FetchLeagueCall].ok

\* The calls of a finished run
C12_CallsAtEnd ==
    Done =>
        /\ Len(calls) >= 1
        /\ IF FetchStarted /\ calls[FetchLeagueCall].ok
           THEN WeeksCalled = RequestedWeeks
           ELSE WeeksCalled = <<>>
        /\ ~FetchStarted => exit_code = 1 /\ Unmatched # {}

\* C12 (amended): the calls of a run are in sequence, one at a time: when the
\* command validates participants, one initializing call made by the
\* validation; then, unless validation failed, exactly one initializing call
\* made by the fetch; then, if that call succeeded, exactly one scoreboard call
\* for each week from start_week to end_week in ascending order, no week twice
\* and none omitted, whether or not earlier weeks failed.
C12_CallSequence == [][C12_CallStep]_vars /\ [](C12_CallsSoFar /\ C12_CallsAtEnd)

\* A validating run over two weeks whose first week failed: two initializing
\* calls, then week 1 and week 2
C12_Witness ==
    /\ Done
    /\ UsesParticipants
    /\ Len(calls) = 4
    /\ Len(LeagueCalls) = 2
    /\ WeeksCalled = <<1, 2>>
    /\ ~ScoreboardCalls[1].ok
    /\ ScoreboardCalls[2].ok
    /\ exit_code = 0

----------------------------------------------------------------------------
(* C13 *)

\* The signals in priority order; the nonzero-score fallback comes after them
SignalOrder == <<"complete", "winner", "played">>

AvailableSignals(m) == {i \in 1..Len(SignalOrder) : SignalOrder[i] \in m.attrs}

\* The first available signal
DecidingSignal(m) ==
    IF AvailableSignals(m) = {} THEN "nonzero_score"
    ELSE SignalOrder[CHOOSE i \in AvailableSignals(m) : \A j \in AvailableSignals(m) : i <= j]

\* What a team scored in week w, 0 when its scores end before w
ScoredIn(team, w) == IF w \in DOMAIN team.scores THEN team.scores[w] ELSE 0

\* What one signal says on its own
SignalSays(m, signal, w) ==
    CASE signal = "complete" -> m.complete
      [] signal = "winner" -> m.winner # "None"
      [] signal = "played" -> m.played
      [] OTHER -> ScoredIn(m.home_team, w) > 0 \/ ScoredIn(m.away_team, w) > 0

JudgedPlayed(m, w) == SignalSays(m, DecidingSignal(m), w)

PlayedMatchups == SelectSeq(input.matchups, LAMBDA m : JudgedPlayed(m, week))

\* C13: when the scoreboard call returns, fetch_week_scores returns, for the
\* matchups that the first available signal in the order complete, winner,
\* played, nonzero score says are played, and for no other, two records each,
\* the home team's then the away team's, in scoreboard order, all carrying
\* the requested week; when the call raises it returns None.
C13_FirstSignalDecides ==
    pc = "fetched" =>
        IF input.raises THEN output = None
        ELSE /\ ~output.is_none
             /\ Len(output.items) = 2 * Len(PlayedMatchups)
             /\ \A i \in 1..Len(output.items) : output.items[i].week = week
             /\ \A k \in 1..Len(PlayedMatchups) :
                    /\ output.items[2 * k - 1].team = PlayedMatchups[k].home_team.team_name
                    /\ output.items[2 * k - 1].score = ScoredIn(PlayedMatchups[k].home_team, week)
                    /\ output.items[2 * k].team = PlayedMatchups[k].away_team.team_name
                    /\ output.items[2 * k].score = ScoredIn(PlayedMatchups[k].away_team, week)

\* Two matchups whose signals disagree: the first has complete false although
\* a winner is set, the played flag is true and the home team scored; the
\* second has no complete flag and a winner although the played flag is false
\* and nobody scored.  Only the second yields records.
C13_Witness ==
    /\ pc = "fetched"
    /\ ~input.raises
    /\ Len(input.matchups) = 2
    /\ LET first == input.matchups[1]
           second == input.matchups[2]
       IN /\ first.attrs = {"complete", "winner", "played"}
          /\ ~first.complete /\ first.winner # "None" /\ first.played
          /\ ScoredIn(first.home_team, week) > 0
          /\ second.attrs = {"winner", "played"}
          /\ second.winner # "None" /\ ~second.played
          /\ ScoredIn(second.home_team, week) = 0 /\ ScoredIn(second.away_team, week) = 0
          /\ Len(output.items) = 2
          /\ output.items[1].team = second.home_team.team_name
          /\ output.items[2].team = second.away_team.team_name
          /\ output.items[1].week = week /\ output.items[2].week = week

====
